---- MODULE Spec2Model ----
(***************************************************************************)
(* Model of Script/bot_notify_module.js: the Bot notification helper.      *)
(*                                                                         *)
(* The file holds two copies of the module, v1.4 (lines 35-166) and v1.3   *)
(* (lines 201-414).  `version` selects the copy that is loaded.  The two   *)
(* differ only in how notifyBot builds the entries of `results` in "both"  *)
(* mode (explicit fields in v1.4, object spread in v1.3).                  *)
(*                                                                         *)
(* JavaScript values are modelled as follows.                              *)
(*   - atoms are strings: "undefined", "null", "true", "false", numbers    *)
(*     written "#n", and every other string is the JS string of that text; *)
(*   - objects are functions from property names to values;                *)
(*   - text on the wire (request and response bodies) is a sequence of     *)
(*     JSON tokens, produced by JSONstringify and read by JSONparse.       *)
(* The Chinese literals of the source are written in ASCII:                *)
(*   '你的Bot域名' is PLACEHOLDER, '未配置 bot_secret' is ERR_NO_SECRET,       *)
(*   'URL 未配置' is ERR_NO_URL, '响应解析失败' is ERR_PARSE.                   *)
(***************************************************************************)
EXTENDS Naturals, Sequences, FiniteSets, TLC

VARIABLES
    BOT_NOTIFY_URL,   \* configuration, loaded once (lines 40, 210)
    BOT_SECRET,       \* (lines 43, 217)
    BOT_NOTIFY_MODE,  \* (lines 46, 226)
    version,          \* which copy of the module is loaded: "v1.4" or "v1.3"
    pc,               \* per invocation: "idle", "post", "wait", "done"
    title,            \* per invocation: notifyBot's arguments
    content,
    modeArg,
    targetMode,       \* per invocation: notifyBot's local targetMode
    mode,             \* per invocation: mode parameter of the running sendNotify
    retryCount,       \* per invocation: retryCount of the innermost sendNotify
    sendNo,           \* per invocation: how many top-level sendNotify calls were started
    results,          \* per invocation: notifyBot's local results
    ret,              \* per invocation: the value notifyBot returned
    log               \* per invocation: history of requests, callbacks, waits, sends

cfgVars == <<BOT_NOTIFY_URL, BOT_SECRET, BOT_NOTIFY_MODE, version>>
argVars == <<title, content, modeArg>>
vars == <<BOT_NOTIFY_URL, BOT_SECRET, BOT_NOTIFY_MODE, version, pc, title, content,
          modeArg, targetMode, mode, retryCount, sendNo, results, ret, log>>

---------------------------------------------------------------------------
(* Bounds and program constants *)

MaxUrlLen == 2

BOT_NOTIFY_TIMEOUT == 10000

BOT_NOTIFY_RETRY == 1

WAIT_MS == 1000

Procs == {"p1", "p2"}

---------------------------------------------------------------------------
(* JavaScript values *)

Undefined == "undefined"

Null == "null"

Falsy == {"undefined", "null", "false", "#0", ""}

Truthy(v) == v \notin Falsy

\* o.k : a missing property reads as undefined
Get(o, k) == IF k \in DOMAIN o THEN o[k] ELSE Undefined

\* String(v) for the values an error can take
JsString(v) ==
    CASE v = "Error{reset}" -> "Error: reset"
      [] v = "#5" -> "5"
      [] OTHER -> v

\* { ...base, ...o } : the properties of o override those of base
Spread(base, o) ==
    [k \in (DOMAIN base) \cup (DOMAIN o) |-> IF k \in DOMAIN o THEN o[k] ELSE base[k]]

\* the value of ret before notifyBot has returned
NoValue == [none |-> "true"]

---------------------------------------------------------------------------
(* JSON text *)

LBrace == [tok |-> "{"]

RBrace == [tok |-> "}"]

Member(k, v) == [tok |-> "member", k |-> k, v |-> v]

\* JSON.stringify of a flat object given as a sequence of <<key, value>>:
\* properties whose value is undefined are omitted.
RECURSIVE StringifyMembers(_)
StringifyMembers(kvs) ==
    IF kvs = <<>> THEN <<>>
    ELSE LET kv == Head(kvs)
             rest == StringifyMembers(Tail(kvs))
         IN IF kv[2] = Undefined THEN rest ELSE <<Member(kv[1], kv[2])>> \o rest

JSONstringify(kvs) == <<LBrace>> \o StringifyMembers(kvs) \o <<RBrace>>

IsObjectText(d) ==
    /\ Len(d) >= 2
    /\ d[1].tok = "{"
    /\ d[Len(d)].tok = "}"
    /\ \A i \in 2..(Len(d) - 1) : d[i].tok = "member"

\* the object an object text denotes: a repeated key takes its last value
ObjectOf(d) ==
    LET idx == 2..(Len(d) - 1)
        keys == {d[i].k : i \in idx}
        last(k) == CHOOSE i \in idx : d[i].k = k /\ \A j \in idx : d[j].k = k => j <= i
    IN [k \in keys |-> d[last(k)].v]

\* JSON.parse: kind "throw" (SyntaxError), "null", "prim" (a number or string)
\* or "object"
JSONparse(d) ==
    IF IsObjectText(d) THEN [kind |-> "object", val |-> ObjectOf(d)]
    ELSE IF Len(d) = 1 /\ d[1].tok = "null" THEN [kind |-> "null", val |-> Null]
    ELSE IF Len(d) = 1 /\ d[1].tok = "num" THEN [kind |-> "prim", val |-> d[1].v]
    ELSE [kind |-> "throw", val |-> Undefined]

---------------------------------------------------------------------------
(* Inputs *)

PLACEHOLDER == "YourBotDomain"

ERR_NO_SECRET == "bot_secret not configured"

ERR_NO_URL == "URL not configured"

ERR_PARSE == "response parse failed"

DEFAULT_URL == <<"https://", PLACEHOLDER, "/notify">>

UrlTokens == {"host", PLACEHOLDER}

\* what the store can hold under bot_notify_url (the empty text: not set)
StoreUrls == UNION {[1..n -> UrlTokens] : n \in 0..MaxUrlLen}

StoreSecrets == {"", "s3cret"}

\* what the store can hold under bot_notify_mode; nothing validates it
StoreModes == {"", "broadcast", "channel", "both", "all"}

Titles == {"t1", "t2"}

Contents == {"c1"}

\* the mode argument of notifyBot: omitted, one of the documented three,
\* or some other string (nothing validates it)
ModeArgs == {Undefined, "broadcast", "channel", "both", "all"}

\* the err argument of the $.post callback when the transport failed
Errs == {"timeout", "Error{reset}"}

\* response bodies
Bodies ==
    { <<>>,                                         \* no body
      <<[tok |-> "null"]>>,                         \* null
      <<[tok |-> "num", v |-> "#5"]>>,              \* 5
      <<LBrace, Member("ok", "true"), Member("mode", "channel"), RBrace>>,
      <<LBrace, Member("ok", "true"), Member("mode", "broadcast"),
        Member("success", "#10"), RBrace>>,
      <<LBrace, Member("ok", "false"), Member("error", "X"), RBrace>>,
      <<LBrace, Member("error", "Y"), Member("ok", "true"), Member("ok", "false"), RBrace>>,
      <<LBrace, Member("ok", "true"), Member("mode", "channel")>> }  \* cut off

\* what the HTTP client hands to the callback: (err, data)
Outcomes ==
    {[err |-> e, data |-> <<>>] : e \in Errs} \cup {[err |-> Null, data |-> d] : d \in Bodies}

---------------------------------------------------------------------------
(* Configuration *)

\* $.getdata(key) || dflt, for a text value
GetdataOr(stored, dflt) == IF Truthy(stored) THEN stored ELSE dflt

\* $.getdata('bot_notify_url') || default, the URL being a token sequence
GetUrlOr(stored, dflt) == IF Len(stored) > 0 THEN stored ELSE dflt

Init ==
    /\ \E su \in StoreUrls : BOT_NOTIFY_URL = GetUrlOr(su, DEFAULT_URL)
    /\ \E ss \in StoreSecrets : BOT_SECRET = GetdataOr(ss, "")
    /\ \E sm \in StoreModes : BOT_NOTIFY_MODE = GetdataOr(sm, "broadcast")
    /\ version \in {"v1.4", "v1.3"}
    /\ pc = [p \in Procs |-> "idle"]
    /\ title = [p \in Procs |-> Undefined]
    /\ content = [p \in Procs |-> Undefined]
    /\ modeArg = [p \in Procs |-> Undefined]
    /\ targetMode = [p \in Procs |-> Undefined]
    /\ mode = [p \in Procs |-> Undefined]
    /\ retryCount = [p \in Procs |-> 0]
    /\ sendNo = [p \in Procs |-> 0]
    /\ results = [p \in Procs |-> <<>>]
    /\ ret = [p \in Procs |-> NoValue]
    /\ log = [p \in Procs |-> <<>>]

\* fault: the secret check is left out
SecretMissing_Never == FALSE

\* !BOT_SECRET (lines 140, 376)
SecretMissing == ~Truthy(BOT_SECRET)

\* fault: startsWith in place of includes
Includes_StartsWith(url, marker) == Len(url) > 0 /\ url[1] = marker

\* url.includes(marker): the marker occurs somewhere in the text
Includes(url, marker) == \E i \in 1..Len(url) : url[i] = marker

\* isUrlConfigured() (lines 60-66, 250-259)
isUrlConfigured == ~(Len(BOT_NOTIFY_URL) = 0 \/ Includes(BOT_NOTIFY_URL, PLACEHOLDER))

---------------------------------------------------------------------------
(* sendNotify *)

\* fault: the body is built with the title in place of the content
RequestOpts_TitleAsContent(t, c, m) ==
    [url |-> BOT_NOTIFY_URL,
     method |-> "POST",
     timeout |-> BOT_NOTIFY_TIMEOUT,
     headers |-> [Authorization |-> <<"Bearer ", BOT_SECRET>>,
                  ContentType |-> "application/json"],
     body |-> JSONstringify(<< <<"title", t>>, <<"content", t>>, <<"mode", m>> >>)]

\* the options object handed to $.post (lines 78-87, 277-288)
RequestOpts(t, c, m) ==
    [url |-> BOT_NOTIFY_URL,
     method |-> "POST",
     timeout |-> BOT_NOTIFY_TIMEOUT,
     headers |-> [Authorization |-> <<"Bearer ", BOT_SECRET>>,
                  ContentType |-> "application/json"],
     body |-> JSONstringify(<< <<"title", t>>, <<"content", c>>, <<"mode", m>> >>)]

\* log entries
ReqEvent(n, m, rc, opts) == [type |-> "request", send |-> n, mode |-> m, attempt |-> rc, opts |-> opts]

RespEvent(n, o) == [type |-> "response", send |-> n, err |-> o.err, data |-> o.data]

WaitStart(n) == [type |-> "waitStart", send |-> n, ms |-> WAIT_MS]

WaitEnd(n) == [type |-> "waitEnd", send |-> n]

SendEnd(n, m, r) == [type |-> "sendEnd", send |-> n, mode |-> m, result |-> r]

\* fault: <= in place of <
MayRetry_OffByOne(rc) == rc <= BOT_NOTIFY_RETRY

\* the retry test of both branches (lines 92 and 117)
MayRetry(rc) == rc < BOT_NOTIFY_RETRY

\* fault: a remote rejection (ok false) is retried like a transport error
TryBlock_RetryRejection(err, data, rc) ==
    IF Truthy(err)
    THEN IF MayRetry(rc)
         THEN [act |-> "retry"]
         ELSE [act |-> "resolve", result |-> [ok |-> "false", error |-> JsString(err)]]
    ELSE LET parsed == JSONparse(data) IN
         CASE parsed.kind = "throw" -> [act |-> "exception"]
           [] parsed.kind = "null" -> [act |-> "exception"]
           [] parsed.kind = "prim" ->
                [act |-> "resolve", result |-> [ok |-> "false", error |-> Undefined]]
           [] OTHER ->
                IF Truthy(Get(parsed.val, "ok"))
                THEN [act |-> "resolve", result |-> parsed.val]
                ELSE IF MayRetry(rc)
                THEN [act |-> "retry"]
                ELSE [act |-> "resolve",
                      result |-> [ok |-> "false", error |-> Get(parsed.val, "error")]]

\* fault: a success is rebuilt as { ok, mode } in place of resolve(result)
TryBlock_DropsFields(err, data, rc) ==
    IF Truthy(err)
    THEN IF MayRetry(rc)
         THEN [act |-> "retry"]
         ELSE [act |-> "resolve", result |-> [ok |-> "false", error |-> JsString(err)]]
    ELSE LET parsed == JSONparse(data) IN
         CASE parsed.kind = "throw" -> [act |-> "exception"]
           [] parsed.kind = "null" -> [act |-> "exception"]
           [] parsed.kind = "prim" ->
                [act |-> "resolve", result |-> [ok |-> "false", error |-> Undefined]]
           [] OTHER ->
                IF Truthy(Get(parsed.val, "ok"))
                THEN [act |-> "resolve",
                      result |-> [ok |-> Get(parsed.val, "ok"), mode |-> Get(parsed.val, "mode")]]
                ELSE [act |-> "resolve",
                      result |-> [ok |-> "false", error |-> Get(parsed.val, "error")]]

\* the try block of the $.post callback (lines 91-115): what it does, or the
\* exception it ends with
TryBlock(err, data, rc) ==
    IF Truthy(err)
    THEN IF MayRetry(rc)
         THEN [act |-> "retry"]
         ELSE [act |-> "resolve", result |-> [ok |-> "false", error |-> JsString(err)]]
    ELSE LET parsed == JSONparse(data) IN
         CASE parsed.kind = "throw" -> [act |-> "exception"]   \* SyntaxError of JSON.parse
           [] parsed.kind = "null" -> [act |-> "exception"]    \* TypeError of result.ok
           [] parsed.kind = "prim" ->                          \* result.ok is undefined
                [act |-> "resolve", result |-> [ok |-> "false", error |-> Undefined]]
           [] OTHER ->
                IF Truthy(Get(parsed.val, "ok"))
                THEN [act |-> "resolve", result |-> parsed.val]
                ELSE [act |-> "resolve",
                      result |-> [ok |-> "false", error |-> Get(parsed.val, "error")]]

\* fault: a parse failure is not retried
CatchBlock_NoRetry(rc) == [act |-> "resolve", result |-> [ok |-> "false", error |-> ERR_PARSE]]

\* fault: a parse failure is retried without looking at retryCount
CatchBlock_AlwaysRetry(rc) == [act |-> "retry"]

\* the catch block (lines 116-126)
CatchBlock(rc) ==
    IF MayRetry(rc)
    THEN [act |-> "retry"]
    ELSE [act |-> "resolve", result |-> [ok |-> "false", error |-> ERR_PARSE]]

\* fault: no catch block around the try block
Callback_NoCatch(err, data, rc) == TryBlock(err, data, rc)

\* the whole callback: the catch block handles every exception of the try block
Callback(err, data, rc) ==
    LET t == TryBlock(err, data, rc) IN
    IF t.act = "exception" THEN CatchBlock(rc) ELSE t

\* fault: an enclosing frame rebuilds the result of a retry as { ok, error }
ResolveOuter_Rewrap(r, rc) ==
    IF rc > 0 THEN [ok |-> Get(r, "ok"), error |-> Get(r, "error")] ELSE r

\* resolve(retryResult) of the enclosing sendNotify frames (lines 95-96, 120-121):
\* the result of the innermost attempt is handed outwards as it is
ResolveOuter(r, rc) == r

\* fault: the retry is started without the backoff wait
BackoffBeforeRetry_Skipped == FALSE

\* await $.wait(1000) stands before the recursive sendNotify call in both retry
\* paths (lines 94-95, 119-120)
BackoffBeforeRetry == TRUE

\* fault: the retry is started with the same retryCount
NextRetryCount_Same(rc) == rc

\* the retryCount argument of the recursive call: retryCount + 1 (lines 95, 120)
NextRetryCount(rc) == rc + 1

\* fault: a send started by notifyBot goes on with the count of the send before
StartRetryCount_Carried(prev) == prev

\* the retryCount of a sendNotify call made by notifyBot, which passes none: 0
\* (line 75; the default parameter at line 274), whatever the count reached by
\* the send before it
StartRetryCount(prev) == 0

\* fault: one retryCount for all invocations
RetryCountOf_Shared(p) == retryCount[CHOOSE q \in Procs : \A r \in Procs : retryCount[r] <= retryCount[q]]

\* retryCount is a parameter of sendNotify: each call chain has its own
\* (lines 74, 274)
RetryCountOf(p) == retryCount[p]

---------------------------------------------------------------------------
(* notifyBot *)

\* the entry pushed to results for a sub-send (lines 153, 156; 398, 402)
ResultEntry(m, r) ==
    IF version = "v1.4"
    THEN [mode |-> m, ok |-> Get(r, "ok"), error |-> Get(r, "error")]
    ELSE Spread([mode |-> m], r)

\* fault: every in place of some
AnySuccess_All(rs) == IF \A i \in 1..Len(rs) : Truthy(Get(rs[i], "ok")) THEN "true" ELSE "false"

\* results.some(r => r.ok)
AnySuccess(rs) == IF \E i \in 1..Len(rs) : Truthy(Get(rs[i], "ok")) THEN "true" ELSE "false"

\* fault: the operands of || are exchanged
TargetMode_DefaultFirst(m) == IF Truthy(BOT_NOTIFY_MODE) THEN BOT_NOTIFY_MODE ELSE m

\* mode || BOT_NOTIFY_MODE (lines 148, 387)
TargetMode(m) == IF Truthy(m) THEN m ELSE BOT_NOTIFY_MODE

\* fault: "both" sends broadcast first
SendMode_BroadcastFirst(tm, n) ==
    IF tm = "both" THEN (IF n = 1 THEN "broadcast" ELSE "channel") ELSE tm

\* the mode of the n-th sendNotify call of an invocation (lines 152, 155, 161)
SendMode(tm, n) == IF tm = "both" THEN (IF n = 1 THEN "channel" ELSE "broadcast") ELSE tm

\* fault: "both" mode posts the broadcast request without awaiting the channel send
notifyBot_BothAtOnce(p, t, c, m) ==
    /\ pc[p] = "idle"
    /\ title' = [title EXCEPT ![p] = t]
    /\ content' = [content EXCEPT ![p] = c]
    /\ modeArg' = [modeArg EXCEPT ![p] = m]
    /\ IF SecretMissing
       THEN /\ ret' = [ret EXCEPT ![p] = [ok |-> "false", error |-> ERR_NO_SECRET]]
            /\ pc' = [pc EXCEPT ![p] = "done"]
            /\ UNCHANGED <<targetMode, mode, retryCount, sendNo, results, log>>
       ELSE IF ~isUrlConfigured
       THEN /\ ret' = [ret EXCEPT ![p] = [ok |-> "false", error |-> ERR_NO_URL]]
            /\ pc' = [pc EXCEPT ![p] = "done"]
            /\ UNCHANGED <<targetMode, mode, retryCount, sendNo, results, log>>
       ELSE LET tm == TargetMode(m)
                sm == SendMode(tm, 1)
                first == Append(log[p], ReqEvent(1, sm, StartRetryCount(0), RequestOpts(t, c, sm)))
            IN /\ targetMode' = [targetMode EXCEPT ![p] = tm]
               /\ results' = [results EXCEPT ![p] = <<>>]
               /\ mode' = [mode EXCEPT ![p] = sm]
               /\ retryCount' = [retryCount EXCEPT ![p] = StartRetryCount(0)]
               /\ sendNo' = [sendNo EXCEPT ![p] = 1]
               /\ log' = [log EXCEPT ![p] =
                     IF tm = "both"
                     THEN Append(first, ReqEvent(2, SendMode(tm, 2), StartRetryCount(0),
                                                 RequestOpts(t, c, SendMode(tm, 2))))
                     ELSE first]
               /\ pc' = [pc EXCEPT ![p] = "post"]
               /\ UNCHANGED ret
    /\ UNCHANGED cfgVars

\* notifyBot(title, content, mode) up to its first suspension: the two checks,
\* then the first sendNotify, which posts at once
notifyBot(p, t, c, m) ==
    /\ pc[p] = "idle"
    /\ title' = [title EXCEPT ![p] = t]
    /\ content' = [content EXCEPT ![p] = c]
    /\ modeArg' = [modeArg EXCEPT ![p] = m]
    /\ IF SecretMissing
       THEN /\ ret' = [ret EXCEPT ![p] = [ok |-> "false", error |-> ERR_NO_SECRET]]
            /\ pc' = [pc EXCEPT ![p] = "done"]
            /\ UNCHANGED <<targetMode, mode, retryCount, sendNo, results, log>>
       ELSE IF ~isUrlConfigured
       THEN /\ ret' = [ret EXCEPT ![p] = [ok |-> "false", error |-> ERR_NO_URL]]
            /\ pc' = [pc EXCEPT ![p] = "done"]
            /\ UNCHANGED <<targetMode, mode, retryCount, sendNo, results, log>>
       ELSE LET tm == TargetMode(m)
                sm == SendMode(tm, 1)
            IN /\ targetMode' = [targetMode EXCEPT ![p] = tm]
               /\ results' = [results EXCEPT ![p] = <<>>]
               /\ mode' = [mode EXCEPT ![p] = sm]
               /\ retryCount' = [retryCount EXCEPT ![p] = StartRetryCount(0)]
               /\ sendNo' = [sendNo EXCEPT ![p] = 1]
               /\ log' = [log EXCEPT ![p] =
                     Append(@, ReqEvent(1, sm, StartRetryCount(0), RequestOpts(t, c, sm)))]
               /\ pc' = [pc EXCEPT ![p] = "post"]
               /\ UNCHANGED ret
    /\ UNCHANGED cfgVars

\* the $.post callback runs with (err, data) = o; when it resolves, notifyBot
\* resumes: in "both" mode after the channel send it starts the broadcast send,
\* otherwise it returns
postCallback(p, o) ==
    /\ pc[p] = "post"
    /\ LET n == sendNo[p]
           cb == Callback(o.err, o.data, RetryCountOf(p))
           lg == Append(log[p], RespEvent(n, o))
       IN CASE cb.act = "retry" ->
                 IF BackoffBeforeRetry
                 THEN /\ pc' = [pc EXCEPT ![p] = "wait"]
                      /\ log' = [log EXCEPT ![p] = Append(lg, WaitStart(n))]
                      /\ UNCHANGED <<mode, retryCount, sendNo, results, ret>>
                 ELSE /\ retryCount' = [retryCount EXCEPT ![p] = NextRetryCount(RetryCountOf(p))]
                      /\ log' = [log EXCEPT ![p] =
                            Append(lg, ReqEvent(n, mode[p], NextRetryCount(RetryCountOf(p)),
                                                RequestOpts(title[p], content[p], mode[p])))]
                      /\ UNCHANGED <<pc, mode, sendNo, results, ret>>
            [] cb.act = "exception" ->
                 \* an exception that leaves the callback: nothing resolves the promise
                 /\ pc' = [pc EXCEPT ![p] = "unhandled"]
                 /\ log' = [log EXCEPT ![p] = lg]
                 /\ UNCHANGED <<mode, retryCount, sendNo, results, ret>>
            [] OTHER ->
                 LET r == ResolveOuter(cb.result, RetryCountOf(p))
                     lg2 == Append(lg, SendEnd(n, mode[p], r))
                     rs == Append(results[p], ResultEntry(SendMode(targetMode[p], n), r))
                 IN IF targetMode[p] = "both"
                    THEN IF n = 1
                         THEN /\ results' = [results EXCEPT ![p] = rs]
                              /\ mode' = [mode EXCEPT ![p] = SendMode("both", 2)]
                              /\ retryCount' = [retryCount EXCEPT ![p] =
                                    StartRetryCount(RetryCountOf(p))]
                              /\ sendNo' = [sendNo EXCEPT ![p] = 2]
                              /\ log' = [log EXCEPT ![p] =
                                    Append(lg2, ReqEvent(2, SendMode("both", 2),
                                        StartRetryCount(RetryCountOf(p)),
                                        RequestOpts(title[p], content[p], SendMode("both", 2))))]
                              /\ UNCHANGED <<pc, ret>>
                         ELSE /\ results' = [results EXCEPT ![p] = rs]
                              /\ ret' = [ret EXCEPT ![p] = [ok |-> AnySuccess(rs), results |-> rs]]
                              /\ pc' = [pc EXCEPT ![p] = "done"]
                              /\ log' = [log EXCEPT ![p] = lg2]
                              /\ UNCHANGED <<mode, retryCount, sendNo>>
                    ELSE /\ ret' = [ret EXCEPT ![p] = r]
                         /\ pc' = [pc EXCEPT ![p] = "done"]
                         /\ log' = [log EXCEPT ![p] = lg2]
                         /\ UNCHANGED <<mode, retryCount, sendNo, results>>
    /\ UNCHANGED <<cfgVars, argVars, targetMode>>

\* $.wait(1000) is over: sendNotify(title, content, mode, retryCount + 1) posts
waitDone(p) ==
    /\ pc[p] = "wait"
    /\ retryCount' = [retryCount EXCEPT ![p] = NextRetryCount(RetryCountOf(p))]
    /\ log' = [log EXCEPT ![p] =
          Append(Append(@, WaitEnd(sendNo[p])),
                 ReqEvent(sendNo[p], mode[p], NextRetryCount(RetryCountOf(p)),
                          RequestOpts(title[p], content[p], mode[p])))]
    /\ pc' = [pc EXCEPT ![p] = "post"]
    /\ UNCHANGED <<cfgVars, argVars, targetMode, mode, sendNo, results, ret>>

---------------------------------------------------------------------------
(* Specifications *)

\* one invocation of notifyBot
Next ==
    \/ \E t \in Titles, c \in Contents, m \in ModeArgs : notifyBot("p1", t, c, m)
    \/ \E o \in Outcomes : postCallback("p1", o)
    \/ waitDone("p1")

Spec == Init /\ [][Next]_vars

\* the HTTP client calls back every request and every wait ends
Fairness ==
    /\ WF_vars(\E o \in Outcomes : postCallback("p1", o))
    /\ WF_vars(waitDone("p1"))

FairSpec == Init /\ [][Next]_vars /\ Fairness

\* Several invocations in progress at once: callbacks and waits of the two
\* invocations interleave in any order.  The inputs are a part of those of Spec.
ConcStoreModes == {"both"}

ConcModeArgs == {Undefined, "channel"}

ConcOutcomes ==
    { [err |-> "timeout", data |-> <<>>],
      [err |-> Null, data |-> <<>>],
      [err |-> Null, data |-> <<LBrace, Member("ok", "true"), Member("mode", "channel"), RBrace>>],
      [err |-> Null, data |-> <<LBrace, Member("ok", "false"), Member("error", "X"), RBrace>>] }

InitConc ==
    /\ BOT_NOTIFY_URL = GetUrlOr(<<"host">>, DEFAULT_URL)
    /\ BOT_SECRET = GetdataOr("s3cret", "")
    /\ \E sm \in ConcStoreModes : BOT_NOTIFY_MODE = GetdataOr(sm, "broadcast")
    /\ version \in {"v1.4", "v1.3"}
    /\ pc = [p \in Procs |-> "idle"]
    /\ title = [p \in Procs |-> Undefined]
    /\ content = [p \in Procs |-> Undefined]
    /\ modeArg = [p \in Procs |-> Undefined]
    /\ targetMode = [p \in Procs |-> Undefined]
    /\ mode = [p \in Procs |-> Undefined]
    /\ retryCount = [p \in Procs |-> 0]
    /\ sendNo = [p \in Procs |-> 0]
    /\ results = [p \in Procs |-> <<>>]
    /\ ret = [p \in Procs |-> NoValue]
    /\ log = [p \in Procs |-> <<>>]

NextConc ==
    \E p \in Procs :
        \/ \E t \in Titles, c \in Contents, m \in ConcModeArgs : notifyBot(p, t, c, m)
        \/ \E o \in ConcOutcomes : postCallback(p, o)
        \/ waitDone(p)

SpecConc == InitConc /\ [][NextConc]_vars

---------------------------------------------------------------------------
(* Reading the history *)

Sends == 1..2

ReqsOf(p, n) == SelectSeq(log[p], LAMBDA e : e.type = "request" /\ e.send = n)

RespsOf(p, n) == SelectSeq(log[p], LAMBDA e : e.type = "response" /\ e.send = n)

EndsOf(p, n) == SelectSeq(log[p], LAMBDA e : e.type = "sendEnd" /\ e.send = n)

AllReqs(p) == SelectSeq(log[p], LAMBDA e : e.type = "request")

\* the mode a request carries on the wire: read back from its body
WireMode(e) == Get(JSONparse(e.opts.body).val, "mode")

IsTransportError(e) == Truthy(e.err)

IsParsedObject(e) == ~Truthy(e.err) /\ JSONparse(e.data).kind = "object"

Decoded(e) == JSONparse(e.data).val

IsSuccess(e) == IsParsedObject(e) /\ Truthy(Get(Decoded(e), "ok"))

IsRejection(e) == IsParsedObject(e) /\ ~Truthy(Get(Decoded(e), "ok"))

\* nothing of send n is logged after its end
QuietAfterEnd(p, n) ==
    \A i, j \in DOMAIN log[p] :
        (i < j /\ log[p][i].type = "sendEnd" /\ log[p][i].send = n) => log[p][j].send # n

Started(p) == pc[p] # "idle"

---------------------------------------------------------------------------
(* Claims *)

\* C1: with an empty secret, notifyBot returns ok false and no HTTP request is
\* ever issued by the invocation, whatever the title, content, mode and URL.
C1_EmptySecretNoRequest ==
    \A p \in Procs :
        (Started(p) /\ BOT_SECRET = "") =>
            /\ pc[p] = "done"
            /\ Get(ret[p], "ok") = "false"
            /\ log[p] = <<>>

C1_Witness ==
    /\ BOT_SECRET = ""
    /\ PLACEHOLDER \notin {BOT_NOTIFY_URL[i] : i \in DOMAIN BOT_NOTIFY_URL}
    /\ pc["p1"] = "done"
    /\ modeArg["p1"] = "both"
    /\ ret["p1"] = [ok |-> "false", error |-> ERR_NO_SECRET]

\* C2: with a secret, and a URL that is empty or holds the placeholder marker,
\* notifyBot returns ok false and no HTTP request is ever issued.
C2_UnconfiguredUrlNoRequest ==
    \A p \in Procs :
        (/\ Started(p)
         /\ BOT_SECRET # ""
         /\ \/ BOT_NOTIFY_URL = <<>>
            \/ PLACEHOLDER \in {BOT_NOTIFY_URL[i] : i \in DOMAIN BOT_NOTIFY_URL}) =>
            /\ pc[p] = "done"
            /\ Get(ret[p], "ok") = "false"
            /\ log[p] = <<>>

C2_Witness ==
    /\ BOT_SECRET # ""
    /\ Len(BOT_NOTIFY_URL) > 1
    /\ BOT_NOTIFY_URL[1] # PLACEHOLDER
    /\ BOT_NOTIFY_URL[2] = PLACEHOLDER
    /\ pc["p1"] = "done"
    /\ ret["p1"] = [ok |-> "false", error |-> ERR_NO_URL]
    /\ log["p1"] = <<>>

\* C3: a send whose every attempt ends in a transport error issues exactly
\* BOT_NOTIFY_RETRY + 1 requests, then ends with ok false and the stringified
\* error of the last attempt.
C3_AllTransportErrors ==
    \A p \in Procs : \A n \in Sends :
        LET rs == RespsOf(p, n)
            es == EndsOf(p, n)
        IN (\A i \in DOMAIN rs : IsTransportError(rs[i])) =>
              /\ Len(ReqsOf(p, n)) <= BOT_NOTIFY_RETRY + 1
              /\ Len(es) <= 1
              /\ Len(es) = 1 =>
                    /\ Len(ReqsOf(p, n)) = BOT_NOTIFY_RETRY + 1
                    /\ Len(rs) = BOT_NOTIFY_RETRY + 1
                    /\ es[1].result = [ok |-> "false", error |-> JsString(rs[Len(rs)].err)]
              /\ (Len(rs) = BOT_NOTIFY_RETRY + 1) => Len(es) = 1

C3_Witness ==
    LET rs == RespsOf("p1", 1)
        es == EndsOf("p1", 1)
    IN /\ pc["p1"] = "done"
       /\ targetMode["p1"] = "broadcast"
       /\ Len(rs) = 2
       /\ rs[1].err = "timeout"
       /\ rs[2].err = "Error{reset}"
       /\ ret["p1"] = [ok |-> "false", error |-> "Error: reset"]

\* C4: when the first BOT_NOTIFY_RETRY attempts of a send fail with a transport
\* error and the next one returns a parsed response with ok true, the send
\* returns that response, has issued exactly BOT_NOTIFY_RETRY + 1 requests, and
\* issues nothing after the success.
C4_SuccessAfterRetries ==
    \A p \in Procs : \A n \in Sends :
        LET rs == RespsOf(p, n)
            es == EndsOf(p, n)
        IN (/\ Len(rs) >= BOT_NOTIFY_RETRY + 1
            /\ \A i \in 1..BOT_NOTIFY_RETRY : IsTransportError(rs[i])
            /\ IsSuccess(rs[BOT_NOTIFY_RETRY + 1])) =>
              /\ Len(rs) = BOT_NOTIFY_RETRY + 1
              /\ Len(ReqsOf(p, n)) = BOT_NOTIFY_RETRY + 1
              /\ Len(es) = 1
              /\ es[1].result = Decoded(rs[BOT_NOTIFY_RETRY + 1])
              /\ QuietAfterEnd(p, n)

C4_Witness ==
    LET rs == RespsOf("p1", 1)
    IN /\ pc["p1"] = "done"
       /\ targetMode["p1"] = "both"
       /\ Len(rs) = 2
       /\ IsTransportError(rs[1])
       /\ IsSuccess(rs[2])
       /\ Len(ReqsOf("p1", 1)) = 2
       /\ Len(ReqsOf("p1", 2)) = 2
       /\ EndsOf("p1", 1)[1].result = [ok |-> "true", mode |-> "channel"]

\* C5: a parsed response with ok false is never retried: on any attempt it ends
\* the send with { ok: false, error: X }, X the error of the response, and no
\* further request of the send follows; on the first attempt that is 1 call.
C5_RejectionNotRetried ==
    \A p \in Procs : \A i \in DOMAIN log[p] :
        LET e == log[p][i] IN
        (e.type = "response" /\ IsRejection(e)) =>
            /\ i < Len(log[p])
            /\ log[p][i + 1] =
                  SendEnd(e.send, SendMode(targetMode[p], e.send),
                          [ok |-> "false", error |-> Get(Decoded(e), "error")])
            /\ \A j \in DOMAIN log[p] :
                  j > i => ~(log[p][j].type \in {"request", "waitStart"} /\ log[p][j].send = e.send)
            /\ Len(ReqsOf(p, e.send)) = Len(RespsOf(p, e.send))
            /\ IsRejection(RespsOf(p, e.send)[1]) => Len(ReqsOf(p, e.send)) = 1

C5_Witness ==
    /\ pc["p1"] = "done"
    /\ targetMode["p1"] = "both"
    /\ Len(RespsOf("p1", 1)) = 1
    /\ IsRejection(RespsOf("p1", 1)[1])
    /\ EndsOf("p1", 1)[1].result = [ok |-> "false", error |-> "X"]
    /\ Len(RespsOf("p1", 2)) = 2
    /\ IsRejection(RespsOf("p1", 2)[2])

\* C6: in "both" mode the ok of notifyBot's result is true iff at least one of
\* the two sub-sends ended with ok true, and false iff both failed.
C6_BothOkIffAnySuccess ==
    \A p \in Procs :
        (pc[p] = "done" /\ targetMode[p] = "both") =>
            LET subOk(n) == Len(EndsOf(p, n)) = 1 /\ Truthy(Get(EndsOf(p, n)[1].result, "ok"))
            IN /\ Get(ret[p], "ok") \in {"true", "false"}
               /\ Get(ret[p], "ok") = "true" <=> (subOk(1) \/ subOk(2))

C6_Witness ==
    /\ pc["p1"] = "done"
    /\ targetMode["p1"] = "both"
    /\ Get(EndsOf("p1", 1)[1].result, "ok") = "false"
    /\ Get(EndsOf("p1", 2)[1].result, "ok") = "true"
    /\ Get(ret["p1"], "ok") = "true"

\* C7: in "both" mode the channel send runs first and to its end (retries and
\* waits included) before any broadcast request is issued, and the broadcast
\* send is started afterwards whether the channel send succeeded or failed.
C7_ChannelThenBroadcast ==
    \A p \in Procs :
        targetMode[p] = "both" =>
            /\ \A i \in DOMAIN log[p] :
                  (log[p][i].type = "request" /\ WireMode(log[p][i]) # "channel") =>
                      /\ WireMode(log[p][i]) = "broadcast"
                      /\ \E k \in 1..(i - 1) : log[p][k].type = "sendEnd" /\ log[p][k].mode = "channel"
                      /\ \A j \in (i + 1)..Len(log[p]) :
                            log[p][j].type = "request" => WireMode(log[p][j]) = "broadcast"
            /\ \A k \in DOMAIN log[p] :
                  (log[p][k].type = "sendEnd" /\ log[p][k].mode = "channel") =>
                      /\ k < Len(log[p])
                      /\ log[p][k + 1].type = "request"
                      /\ WireMode(log[p][k + 1]) = "broadcast"
                      /\ \A j \in 1..(k - 1) : log[p][j].type # "sendEnd"
            /\ Len(log[p]) > 0 /\ log[p][1].type = "request" /\ WireMode(log[p][1]) = "channel"

C7_Witness ==
    /\ pc["p1"] = "post"
    /\ targetMode["p1"] = "both"
    /\ Len(RespsOf("p1", 1)) = 2
    /\ Get(EndsOf("p1", 1)[1].result, "ok") = "false"
    /\ Len(ReqsOf("p1", 2)) = 2
    /\ WireMode(ReqsOf("p1", 2)[2]) = "broadcast"

\* C8: in a single mode (broadcast or channel), when the remote returns a
\* parseable response with ok true, notifyBot returns the decoded response
\* field for field, on the first attempt or after retries.
C8_SuccessReturnedVerbatim ==
    \A p \in Procs :
        LET rs == RespsOf(p, 1) IN
        (/\ targetMode[p] \in {"broadcast", "channel"}
         /\ Len(rs) > 0
         /\ IsSuccess(rs[Len(rs)])) =>
            /\ pc[p] = "done"
            /\ DOMAIN ret[p] = {rs[Len(rs)].data[i].k : i \in 2..(Len(rs[Len(rs)].data) - 1)}
            /\ \A i \in 2..(Len(rs[Len(rs)].data) - 1) :
                  ret[p][rs[Len(rs)].data[i].k] = rs[Len(rs)].data[i].v
            /\ ret[p] = Decoded(rs[Len(rs)])

C8_Witness ==
    LET rs == RespsOf("p1", 1) IN
    /\ pc["p1"] = "done"
    /\ targetMode["p1"] = "channel"
    /\ Len(rs) = 2
    /\ ret["p1"] = [ok |-> "true", mode |-> "broadcast", success |-> "#10"]

\* C9: every HTTP request carries the mode "broadcast" or "channel", for every
\* mode argument and every configured default mode.
C9_WireModeIsConcrete ==
    \A p \in Procs : \A i \in DOMAIN log[p] :
        log[p][i].type = "request" => WireMode(log[p][i]) \in {"broadcast", "channel"}

\* Companion to C9: when the mode in force (the argument, or the configured
\* default when the argument is omitted) is one of the three documented
\* values, every request carries "broadcast" or "channel".
DocumentedModes == {"broadcast", "channel", "both"}

C9_DocumentedModesOnly ==
    \A p \in Procs :
        (\/ modeArg[p] \in DocumentedModes
         \/ (modeArg[p] = Undefined /\ BOT_NOTIFY_MODE \in DocumentedModes)) =>
            \A i \in DOMAIN log[p] :
                log[p][i].type = "request" => WireMode(log[p][i]) \in {"broadcast", "channel"}

\* C10: no exception leaves notifyBot: whatever the HTTP client hands to the
\* callback on any attempt, the invocation goes on (a wait, a next request) or
\* has returned a value with an ok field.
C10_NoExceptionEscapes ==
    \A p \in Procs :
        /\ pc[p] \in {"idle", "post", "wait", "done"}
        /\ pc[p] = "done" => "ok" \in DOMAIN ret[p]
        /\ pc[p] # "done" => ret[p] = NoValue

C10_Witness ==
    LET rs == RespsOf("p1", 1) IN
    /\ pc["p1"] = "done"
    /\ Len(rs) = 2
    /\ rs[1].data = <<LBrace, Member("ok", "true"), Member("mode", "channel")>>
    /\ rs[2].data = <<[tok |-> "null"]>>
    /\ ret["p1"] = [ok |-> "false", error |-> ERR_PARSE]

\* the mode in force: the argument, or the configured default when it is omitted
EffectiveMode(p) == IF modeArg[p] = Undefined THEN BOT_NOTIFY_MODE ELSE modeArg[p]

\* the mode the n-th send of an invocation must carry under the mode in force
ExpectedWireMode(eff, n) ==
    IF eff = "both" THEN (IF n = 1 THEN "channel" ELSE "broadcast") ELSE eff

\* C11: with the mode argument omitted notifyBot sends what it sends for the
\* configured default mode; with a mode argument given, what it sends follows
\* the argument alone, whatever the configured default.
C11_ModeArgumentOrDefault ==
    \A p \in Procs :
        log[p] # <<>> =>
            /\ targetMode[p] = EffectiveMode(p)
            /\ \A i \in DOMAIN log[p] :
                  log[p][i].type = "request" =>
                      /\ WireMode(log[p][i]) = ExpectedWireMode(EffectiveMode(p), log[p][i].send)
                      /\ log[p][i].send = 2 => EffectiveMode(p) = "both"
            /\ pc[p] = "done" => (Len(EndsOf(p, 2)) = 1 <=> EffectiveMode(p) = "both")

C11_Witness ==
    /\ pc["p1"] = "done"
    /\ modeArg["p1"] = Undefined
    /\ BOT_NOTIFY_MODE = "both"
    /\ Len(AllReqs("p1")) = 2
    /\ WireMode(AllReqs("p1")[1]) = "channel"
    /\ WireMode(AllReqs("p1")[2]) = "broadcast"

\* C12: whatever mix of transport errors and parse failures the attempts meet,
\* a send issues at most BOT_NOTIFY_RETRY + 1 requests: both kinds of failure
\* use the one retryCount, which grows by 1 per retry and never exceeds
\* BOT_NOTIFY_RETRY.
C12_RetriesBounded ==
    \A p \in Procs :
        /\ retryCount[p] <= BOT_NOTIFY_RETRY
        /\ sendNo[p] > 0 => retryCount[p] = Len(ReqsOf(p, sendNo[p])) - 1
        /\ \A n \in Sends :
              LET rq == ReqsOf(p, n) IN
              /\ Len(rq) <= BOT_NOTIFY_RETRY + 1
              /\ \A k \in DOMAIN rq : rq[k].attempt = k - 1

IsParseFailure(e) == ~Truthy(e.err) /\ JSONparse(e.data).kind \in {"throw", "null"}

C12_Witness ==
    LET rs == RespsOf("p1", 1) IN
    /\ pc["p1"] = "done"
    /\ Len(rs) = 2
    /\ IsParseFailure(rs[1])
    /\ IsTransportError(rs[2])
    /\ Len(ReqsOf("p1", 1)) = 2
    /\ ret["p1"] = [ok |-> "false", error |-> "timeout"]

\* C13: a body that fails to parse (or parses to null, whose ok cannot be read)
\* is retried exactly as a transport error is, that is iff the attempt is below
\* BOT_NOTIFY_RETRY; on the last attempt the send ends with ok false and
\* ERR_PARSE after a parse failure, with the stringified error after a
\* transport error, and the two differ.
C13_ParseFailurePolicy ==
    \A p \in Procs : \A i \in DOMAIN log[p] :
        LET e == log[p][i] IN
        (e.type = "response" /\ (IsParseFailure(e) \/ IsTransportError(e))) =>
            /\ i > 1
            /\ i < Len(log[p])
            /\ log[p][i - 1].type = "request"
            /\ IF log[p][i - 1].attempt < BOT_NOTIFY_RETRY
               THEN log[p][i + 1] = WaitStart(e.send)
               ELSE /\ log[p][i + 1].type = "sendEnd"
                    /\ log[p][i + 1].send = e.send
                    /\ log[p][i + 1].result =
                          [ok |-> "false",
                           error |-> IF IsParseFailure(e) THEN ERR_PARSE ELSE JsString(e.err)]
                    /\ IsTransportError(e) => JsString(e.err) # ERR_PARSE

C13_Witness ==
    LET rs == RespsOf("p1", 1) IN
    /\ pc["p1"] = "done"
    /\ targetMode["p1"] = "channel"
    /\ Len(rs) = 2
    /\ IsTransportError(rs[1])
    /\ rs[2].data = <<LBrace, Member("ok", "true"), Member("mode", "channel")>>
    /\ ret["p1"] = [ok |-> "false", error |-> ERR_PARSE]

CountOf(p, n, ty) == Len(SelectSeq(log[p], LAMBDA e : e.type = ty /\ e.send = n))

\* C14: each retry comes after exactly one completed backoff wait: a retryable
\* failure with attempts left is followed by one wait, the wait by the next
\* request; no request is issued while a wait is pending, no wait follows the
\* end of a send, and an ended send has one wait less than requests.
C14_OneWaitPerRetry ==
    \A p \in Procs :
        /\ \A i \in DOMAIN log[p] :
              LET e == log[p][i] IN
              /\ e.type = "waitStart" =>
                    /\ i > 2
                    /\ log[p][i - 1].type = "response"
                    /\ log[p][i - 1].send = e.send
                    /\ IsParseFailure(log[p][i - 1]) \/ IsTransportError(log[p][i - 1])
                    /\ log[p][i - 2].attempt < BOT_NOTIFY_RETRY
                    /\ i < Len(log[p]) => log[p][i + 1] = WaitEnd(e.send)
              /\ e.type = "waitEnd" =>
                    /\ log[p][i - 1] = WaitStart(e.send)
                    /\ i < Len(log[p])
                    /\ log[p][i + 1].type = "request"
                    /\ log[p][i + 1].send = e.send
              /\ (e.type = "request" /\ e.attempt > 0) =>
                    /\ i > 4
                    /\ log[p][i - 1] = WaitEnd(e.send)
                    /\ log[p][i - 2] = WaitStart(e.send)
                    /\ log[p][i - 3].type = "response"
                    /\ log[p][i - 4].type = "request"
                    /\ log[p][i - 4].send = e.send
                    /\ log[p][i - 4].attempt = e.attempt - 1
        /\ pc[p] = "wait" <=> (log[p] # <<>> /\ log[p][Len(log[p])].type = "waitStart")
        /\ \A n \in Sends :
              /\ QuietAfterEnd(p, n)
              /\ CountOf(p, n, "waitEnd") <= CountOf(p, n, "waitStart")
              /\ CountOf(p, n, "waitStart") <= CountOf(p, n, "waitEnd") + 1
              /\ Len(EndsOf(p, n)) = 1 =>
                    /\ CountOf(p, n, "waitStart") = Len(ReqsOf(p, n)) - 1
                    /\ CountOf(p, n, "waitEnd") = Len(ReqsOf(p, n)) - 1

C14_Witness ==
    /\ pc["p1"] = "done"
    /\ targetMode["p1"] = "both"
    /\ Len(ReqsOf("p1", 1)) = 2
    /\ CountOf("p1", 1, "waitEnd") = 1
    /\ Len(ReqsOf("p1", 2)) = 1
    /\ CountOf("p1", 2, "waitStart") = 0

\* the steps an invocation may take: SENDING (pc "post") goes to a wait only
\* after a retryable failure with attempts left, a wait goes back to SENDING
\* with the next attempt, a returned invocation does nothing more
SendStateMachine(p) ==
    /\ pc[p] = "idle" => pc'[p] \in {"idle", "post", "done"}
    /\ pc[p] = "post" => pc'[p] \in {"post", "wait", "done"}
    /\ (pc[p] = "post" /\ pc'[p] = "wait") =>
          /\ retryCount[p] < BOT_NOTIFY_RETRY
          /\ retryCount'[p] = retryCount[p]
          /\ LET e == log'[p][Len(log'[p]) - 1] IN
             e.type = "response" /\ (IsTransportError(e) \/ IsParseFailure(e))
    /\ pc[p] = "wait" =>
          \/ pc'[p] = "wait" /\ log'[p] = log[p]
          \/ /\ pc'[p] = "post"
             /\ retryCount'[p] = retryCount[p] + 1
             /\ retryCount'[p] <= BOT_NOTIFY_RETRY
             /\ sendNo'[p] = sendNo[p]
    /\ (pc[p] = "post" /\ pc'[p] = "post" /\ log'[p] # log[p]) =>
          /\ sendNo'[p] = sendNo[p] + 1
          /\ Len(SelectSeq(log'[p], LAMBDA e : e.type = "sendEnd" /\ e.send = sendNo[p])) = 1
    /\ pc[p] = "done" => (pc'[p] = "done" /\ log'[p] = log[p] /\ ret'[p] = ret[p])

\* C15: if every request is called back and every wait ends, every invocation
\* returns; a send goes SENDING -> ended, or SENDING -> wait -> SENDING only
\* while attempts are left, and an ended send issues no further request.
C15_EventuallyReturns ==
    /\ \A p \in Procs : (pc[p] \in {"post", "wait"}) ~> (pc[p] = "done")
    /\ [][\A p \in Procs : SendStateMachine(p)]_vars
    /\ [](\A p \in Procs : \A n \in Sends : QuietAfterEnd(p, n))

C15_Witness ==
    /\ pc["p1"] = "done"
    /\ targetMode["p1"] = "both"
    /\ Len(ReqsOf("p1", 1)) = 2
    /\ Len(ReqsOf("p1", 2)) = 2
    /\ Get(ret["p1"], "ok") = "false"

AllResps(p) == SelectSeq(log[p], LAMBDA e : e.type = "response")

\* the requests and callbacks among the first i entries of the log
ReqsBefore(p, i) == Cardinality({j \in 1..(i - 1) : log[p][j].type = "request"})

RespsBefore(p, i) == Cardinality({j \in 1..(i - 1) : log[p][j].type = "response"})

\* C16: an invocation has at most one request outstanding: each request, a
\* retry or the broadcast request of "both" mode, is issued only after the
\* callback of every earlier request of the invocation has run.
C16_OneOutstandingRequest ==
    \A p \in Procs :
        /\ Len(AllResps(p)) <= Len(AllReqs(p))
        /\ Len(AllReqs(p)) <= Len(AllResps(p)) + 1
        /\ pc[p] = "post" <=> Len(AllReqs(p)) = Len(AllResps(p)) + 1
        /\ \A i \in DOMAIN log[p] :
              /\ log[p][i].type = "request" => ReqsBefore(p, i) = RespsBefore(p, i)
              /\ log[p][i].type = "response" => ReqsBefore(p, i) = RespsBefore(p, i) + 1

C16_Witness ==
    /\ pc["p1"] = "post"
    /\ targetMode["p1"] = "both"
    /\ Len(AllReqs("p1")) = 4
    /\ Len(AllResps("p1")) = 3
    /\ AllReqs("p1")[4].attempt = 1
    /\ WireMode(AllReqs("p1")[4]) = "broadcast"

\* what a send must end with, read from the callbacks of its own requests alone
ExpectedSendResult(rs) ==
    LET last == rs[Len(rs)] IN
    IF IsTransportError(last) THEN [ok |-> "false", error |-> JsString(last.err)]
    ELSE IF IsParseFailure(last) THEN [ok |-> "false", error |-> ERR_PARSE]
    ELSE IF IsSuccess(last) THEN Decoded(last)
    ELSE IF IsRejection(last) THEN [ok |-> "false", error |-> Get(Decoded(last), "error")]
    ELSE [ok |-> "false", error |-> Undefined]

IsRetryable(e) == IsTransportError(e) \/ IsParseFailure(e)

\* everything that belongs to invocation p
StateOf(p) ==
    <<pc[p], title[p], content[p], modeArg[p], targetMode[p], mode[p], retryCount[p],
      sendNo[p], results[p], ret[p], log[p]>>

\* the same, one step later
StateOfNext(p) ==
    <<pc'[p], title'[p], content'[p], modeArg'[p], targetMode'[p], mode'[p], retryCount'[p],
      sendNo'[p], results'[p], ret'[p], log'[p]>>

OwnCounter(p) ==
    /\ sendNo[p] > 0 => retryCount[p] = Len(ReqsOf(p, sendNo[p])) - 1
    /\ \A n \in Sends :
          LET rs == RespsOf(p, n)
              es == EndsOf(p, n)
          IN /\ Len(ReqsOf(p, n)) <= BOT_NOTIFY_RETRY + 1
             /\ \A k \in DOMAIN rs :
                   \* a retryable failure below the last attempt is retried, whatever
                   \* the other invocation has used up
                   (IsRetryable(rs[k]) /\ k <= BOT_NOTIFY_RETRY) =>
                       (Len(es) = 0 /\ (k < Len(rs) \/ pc[p] \in {"wait", "post"}))
                       \/ (Len(es) = 1 /\ k < Len(rs))
             /\ Len(es) = 1 => es[1].result = ExpectedSendResult(rs)

OwnResult(p) ==
    pc[p] = "done" =>
        IF targetMode[p] = "both"
        THEN /\ Len(ret[p].results) = 2
             /\ \A n \in Sends :
                   Get(ret[p].results[n], "ok") = Get(ExpectedSendResult(RespsOf(p, n)), "ok")
             /\ ret[p].ok = "true" <=>
                   \E n \in Sends : Truthy(Get(ExpectedSendResult(RespsOf(p, n)), "ok"))
        ELSE ret[p] = ExpectedSendResult(RespsOf(p, 1))

\* C17: with several invocations in progress and their callbacks and waits
\* interleaved, each invocation has its own attempt counter: a step of one
\* invocation changes nothing of another, each send still issues at most
\* BOT_NOTIFY_RETRY + 1 requests and retries its own failures, and the result
\* of an invocation follows from the callbacks of its own requests.
C17_InvocationsIndependent ==
    /\ [](\A p \in Procs : OwnCounter(p) /\ OwnResult(p))
    /\ [][\A p, q \in Procs :
            (p # q /\ StateOfNext(p) # StateOf(p)) => StateOfNext(q) = StateOf(q)]_vars

C17_Witness ==
    /\ pc["p1"] = "wait"
    /\ retryCount["p1"] = 0
    /\ sendNo["p1"] = 2
    /\ pc["p2"] = "post"
    /\ retryCount["p2"] = 1
    /\ sendNo["p2"] = 1
    /\ title["p1"] # title["p2"]

\* C18: in "both" mode each sub-send has its own retry budget: the broadcast
\* send starts at attempt 0 and may use BOT_NOTIFY_RETRY + 1 attempts even
\* after the channel send used all of its own, so an invocation issues at
\* least 2 and at most 2 * (BOT_NOTIFY_RETRY + 1) requests.
C18_BudgetPerSubSend ==
    \A p \in Procs :
        targetMode[p] = "both" =>
            /\ Len(AllReqs(p)) <= 2 * (BOT_NOTIFY_RETRY + 1)
            /\ pc[p] = "done" => Len(AllReqs(p)) >= 2
            /\ \A n \in Sends :
                  LET rq == ReqsOf(p, n)
                      rs == RespsOf(p, n)
                  IN /\ Len(rq) > 0 => rq[1].attempt = 0
                     /\ (Len(EndsOf(p, n)) = 1 /\ \A k \in DOMAIN rs : IsRetryable(rs[k])) =>
                           Len(rq) = BOT_NOTIFY_RETRY + 1

C18_Witness ==
    /\ pc["p1"] = "done"
    /\ targetMode["p1"] = "both"
    /\ Len(AllReqs("p1")) = 4
    /\ \A k \in 1..2 : IsRetryable(RespsOf("p1", 1)[k])
    /\ ReqsOf("p1", 2)[1].attempt = 0
    /\ ReqsOf("p1", 2)[2].attempt = 1
    /\ Get(ret["p1"], "ok") = "true"

\* the two entries of results describe the channel send and the broadcast send
ResultsDescribeSends(p) ==
    LET rs == ret[p].results IN
    /\ Len(rs) = 2
    /\ Get(rs[1], "mode") = "channel"
    /\ Get(rs[2], "mode") = "broadcast"
    /\ \A n \in Sends :
          /\ Get(rs[n], "ok") = Get(EndsOf(p, n)[1].result, "ok")
          /\ Get(rs[n], "error") = Get(EndsOf(p, n)[1].result, "error")

\* C19: in "both" mode results has exactly two entries, the first for the
\* channel send and the second for the broadcast send, each with the mode of
\* the sub-send requested and the ok and error of its outcome, whatever fields
\* the remote responses hold.
C19_ResultsEntries ==
    \A p \in Procs : (pc[p] = "done" /\ targetMode[p] = "both") => ResultsDescribeSends(p)

\* Companion to C19: the v1.4 copy, which builds each entry from mode, ok and
\* error alone, satisfies it.
C19_ResultsEntriesV14 ==
    \A p \in Procs :
        (pc[p] = "done" /\ targetMode[p] = "both" /\ version = "v1.4") => ResultsDescribeSends(p)

\* the object a request body denotes
BodyOf(e) == JSONparse(e.opts.body).val

RequestCarriesInputs(p, e) ==
    /\ e.opts.url = BOT_NOTIFY_URL
    /\ e.opts.method = "POST"
    /\ e.opts.timeout = BOT_NOTIFY_TIMEOUT
    /\ e.opts.headers.Authorization = <<"Bearer ", BOT_SECRET>>
    /\ DOMAIN BodyOf(e) = {"title", "content", "mode"}
    /\ BodyOf(e).title = title[p]
    /\ BodyOf(e).content = content[p]

\* C20: nothing changes the configuration after it is loaded, and every request
\* of an invocation, retries included, carries the title and content the caller
\* passed and the configured URL, secret and timeout; requests of one
\* invocation differ in the mode and the attempt counter only.
C20_ConfigAndInputsFixed ==
    /\ [][/\ cfgVars' = cfgVars
          /\ \A p \in Procs : pc[p] # "idle" =>
                (title'[p] = title[p] /\ content'[p] = content[p] /\ modeArg'[p] = modeArg[p])]_vars
    /\ [](\A p \in Procs : \A i \in DOMAIN log[p] :
            log[p][i].type = "request" =>
                /\ RequestCarriesInputs(p, log[p][i])
                /\ \A j \in DOMAIN log[p] :
                      log[p][j].type = "request" =>
                          [log[p][j].opts EXCEPT !.body = <<>>] = [log[p][i].opts EXCEPT !.body = <<>>])

C20_Witness ==
    /\ pc["p1"] = "post"
    /\ title["p1"] = "t2"
    /\ Len(AllReqs("p1")) = 4
    /\ BodyOf(AllReqs("p1")[4]) = [title |-> "t2", content |-> "c1", mode |-> "broadcast"]
    /\ BOT_NOTIFY_URL = <<"host", "host">>

====
